---- MODULE Spec2Model ----
(***************************************************************************)
(* List views of the nas-music web client: the MusicList component, the   *)
(* Favorites view, the RecentlyPlayed view and the Artists view.  Each    *)
(* view is a React component: its useState cells are the fields of one    *)
(* record, its handlers and effects are the actions, and every fetch is a *)
(* request in flight until the server (the environment) answers it.       *)
(* A handler that changes a dependency of an effect is modelled together  *)
(* with the effect run that React schedules for it.                       *)
(***************************************************************************)
EXTENDS Integers, Sequences, FiniteSets, Bags, TLC

\* ---------------------------------------------------------------- bounds
MaxTotal == 12          \* largest total count the server reports
MaxTrackId == 1         \* track ids are 1..MaxTrackId
MaxInFlight == 3        \* GET requests outstanding at once
MaxPuts == 2            \* PUT requests outstanding at once
MaxEvents == 2          \* user events (clicks, prop changes) after mount
MaxSizeChoice == 2      \* the user picks among the first MaxSizeChoice page-size options
TotalSpan == 2          \* the server reports 0 or MaxTotal - TotalSpan .. MaxTotal

\* ------------------------------------------------------ program constants
DEFAULT_PAGE_SIZE == 10
PageSizeOptions == <<10, 20, 50, 100>>
PageSizes == {PageSizeOptions[i] : i \in 1..Len(PageSizeOptions)}
SortKeys == {"title", "artist"}
LoadFailed == "load failed"
NetworkError == "network error, retry"

\* ------------------------------------------------ environment value sets
ServerTotals == {0} \cup ((MaxTotal - TotalSpan)..MaxTotal)
PickedSizes == {PageSizeOptions[i] : i \in 1..(IF MaxSizeChoice < 4 THEN MaxSizeChoice ELSE 4)}
Keywords == {"", "a"}
ServerMessages == {"", "server error"}
ThrownMessages == {"Failed to fetch"}

\* Math.ceil(a / b) for b > 0
Ceil(a, b) == -((-a) \div b)

\* x || d on strings: the empty string is falsy
OrStr(x, d) == IF x = "" THEN d ELSE x

\* x || d on numbers: 0 is falsy
OrNum(x, d) == IF x = 0 THEN d ELSE x

\* pages the views can hold, and the page targets a user can ask for
MaxPages == Ceil(MaxTotal, DEFAULT_PAGE_SIZE)
PageTargets == 0..(MaxPages + 1)

RECURSIVE SeqsUpTo(_)
\* ascending lists of distinct track ids drawn from 1..n
SeqsUpTo(n) ==
    IF n = 0 THEN {<< >>}
    ELSE SeqsUpTo(n - 1) \cup {Append(s, n) : s \in SeqsUpTo(n - 1)}

\* the data arrays a response can carry: distinct ids, any favorite flags
DataLists ==
    UNION {{[i \in 1..Len(ids) |-> [id |-> ids[i], favorite |-> f[i]]] :
                f \in [1..Len(ids) -> BOOLEAN]} : ids \in SeqsUpTo(MaxTrackId)}

VARIABLES
    view,    \* the mounted view: "none", "ML", "FV", "RP", "AR"
    ml,      \* MusicList props and useState cells
    fv,      \* FavoritesPage url state and useState cells
    rp,      \* RecentlyPlayedPage useState cells
    ar,      \* ArtistsPage useState cells
    loads,   \* bag of GET requests in flight, each with its closure values
    puts,    \* bag of PUT favorite requests in flight
    events,  \* user events so far
    resized, \* MusicList: the page size was changed and no other page was asked for since
    op,      \* the last handler or response that ran, with its argument
    norm,    \* a track record on its way through one view's record mapping
    sent     \* MusicList: per track id, the favorite value of the last PUT sent since
             \* the list was loaded ("none" before any, "void" once a PUT has failed)

vars == <<view, ml, fv, rp, ar, loads, puts, events, resized, op, norm, sent>>

InFlight == BagCardinality(loads)
PutsInFlight == BagCardinality(puts)

\* the favorite flag MusicList shows for the track with this id
ShownFavorite(id) ==
    LET i == CHOOSE j \in 1..Len(ml.tracks) : ml.tracks[j].id = id
    IN  ml.tracks[i].favorite

\* a response or an effect ran
Did(name, arg) ==
    /\ op' = [name |-> name, arg |-> arg]
    /\ sent' = CASE view = "ML" /\ name = "loadOk" -> [id \in 1..MaxTrackId |-> "none"]
                  [] view = "ML" /\ name = "favoriteFail" -> [sent EXCEPT ![arg] = "void"]
                  [] OTHER -> sent
    /\ UNCHANGED <<events, resized, norm>>

\* a user event ran
User(name, arg) ==
    /\ events < MaxEvents
    /\ events' = events + 1
    /\ op' = [name |-> name, arg |-> arg]
    /\ resized' = CASE view = "ML" /\ name = "handlePageSizeChange" -> TRUE
                     [] view = "ML" /\ name = "handlePageChange" /\ ml' # ml -> FALSE
                     [] OTHER -> resized
    /\ sent' = IF view = "ML" /\ name = "handleFavorite" /\ sent[arg] # "void"
               THEN [sent EXCEPT ![arg] = IF ShownFavorite(arg) THEN "false" ELSE "true"]
               ELSE sent
    /\ UNCHANGED norm

\* ------------------------------------------------------------- MusicList
MLInit ==
    [mode |-> "tracks",
     tracks |-> << >>, isLoading |-> FALSE, error |-> "",
     sortKey |-> "title", sortOrder |-> "asc",
     page |-> 1, pageSize |-> DEFAULT_PAGE_SIZE, total |-> 0, pages |-> 0]

\* the request loadTracks(targetPage) builds from the render m it closes over
MLRequest(m, targetPage) == [targetPage |-> targetPage, pageSize |-> m.pageSize]

\* the synchronous part of loadTracks: setIsLoading(true); setError('')
MLStartLoad(m) == [m EXCEPT !.isLoading = TRUE, !.error = ""]

\* the reload effect: setPage(1); loadTracks(1)
MLReloadEffect(m) == MLStartLoad([m EXCEPT !.page = 1])

\* mount: both effects run, each calling loadTracks(1) from the first render
MLMount(mode) ==
    /\ view = "none"
    /\ view' = "ML"
    /\ LET m0 == [MLInit EXCEPT !.mode = mode]
       IN  /\ ml' = MLReloadEffect(m0)
           /\ loads' = loads (+) SetToBag({MLRequest(m0, 1)}) (+) SetToBag({MLRequest(m0, 1)})
    /\ Did("mount", 0)
    /\ UNCHANGED <<fv, rp, ar, puts>>

\* docs.map(...) of loadTracks, on the fields the views act on
MLMapped(docs) == [i \in 1..Len(docs) |-> [id |-> docs[i].id, favorite |-> docs[i].favorite]]

\* the pagination branch of loadTracks for request r answered by json
MLPagination(m, r, json) ==
    IF m.mode = "recent"
    THEN LET t == IF json.shape = "flat" THEN OrNum(json.total, 0) ELSE 0
         IN  [total |-> t, pages |-> Ceil(t, r.pageSize), page |-> r.targetPage]
    ELSE IF json.shape = "pagination"
         THEN [total |-> OrNum(json.total, 0), pages |-> OrNum(json.pages, 1),
               page |-> OrNum(json.page, r.targetPage)]
         ELSE [total |-> 0, pages |-> 1, page |-> r.targetPage]

\* what the server can answer to request r with the array data:
\* {data, pagination: {total, pages, page}}, {data, total} or {data}
Responses(r, data) ==
    {[shape |-> "pagination", data |-> data, total |-> t,
      pages |-> Ceil(t, r.pageSize), page |-> r.targetPage] : t \in ServerTotals}
    \cup {[shape |-> "flat", data |-> data, total |-> t, pages |-> 0, page |-> 0] :
              t \in ServerTotals}
    \cup {[shape |-> "none", data |-> data, total |-> 0, pages |-> 0, page |-> 0]}

\* loadTracks that applies a response only when no other load is outstanding
MLLoadOkUnlessSuperseded(r, json) ==
    /\ view = "ML"
    /\ BagIn(r, loads)
    /\ loads' = loads (-) SetToBag({r})
    /\ LET pg == MLPagination(ml, r, json)
       IN  ml' = IF InFlight = 1
                 THEN [ml EXCEPT !.tracks = MLMapped(json.data),
                                 !.total = pg.total, !.pages = pg.pages, !.page = pg.page,
                                 !.isLoading = FALSE]
                 ELSE ml
    /\ Did("loadOk", r.targetPage)
    /\ UNCHANGED <<view, fv, rp, ar, puts>>

\* loadTracks after the awaits, json.success truthy
MLLoadOk(r, json) ==
    /\ view = "ML"
    /\ BagIn(r, loads)
    /\ loads' = loads (-) SetToBag({r})
    /\ LET pg == MLPagination(ml, r, json)
       IN  ml' = [ml EXCEPT !.tracks = MLMapped(json.data),
                            !.total = pg.total, !.pages = pg.pages, !.page = pg.page,
                            !.isLoading = FALSE]
    /\ Did("loadOk", r.targetPage)
    /\ UNCHANGED <<view, fv, rp, ar, puts>>

\* loadTracks that stores json.error as it is, and clears the list
MLLoadUnsuccessfulNoFallback(r, e) ==
    /\ view = "ML"
    /\ BagIn(r, loads)
    /\ loads' = loads (-) SetToBag({r})
    /\ ml' = [ml EXCEPT !.error = e, !.tracks = << >>, !.isLoading = FALSE]
    /\ Did("loadFail", r.targetPage)
    /\ UNCHANGED <<view, fv, rp, ar, puts>>

\* loadTracks after the awaits, json.success falsy: throw new Error(json.error || ...)
MLLoadUnsuccessful(r, e) ==
    /\ view = "ML"
    /\ BagIn(r, loads)
    /\ loads' = loads (-) SetToBag({r})
    /\ ml' = [ml EXCEPT !.error = OrStr(OrStr(e, LoadFailed), LoadFailed), !.isLoading = FALSE]
    /\ Did("loadFail", r.targetPage)
    /\ UNCHANGED <<view, fv, rp, ar, puts>>

\* loadTracks when fetch or res.json() rejects with message msg
MLLoadThrows(r, msg) ==
    /\ view = "ML"
    /\ BagIn(r, loads)
    /\ loads' = loads (-) SetToBag({r})
    /\ ml' = [ml EXCEPT !.error = OrStr(msg, LoadFailed), !.isLoading = FALSE]
    /\ Did("loadFail", r.targetPage)
    /\ UNCHANGED <<view, fv, rp, ar, puts>>

\* handleSort that keeps the previous order when a new key is selected
MLhandleSortKeepsOrder(key) ==
    /\ view = "ML"
    /\ InFlight + 1 <= MaxInFlight
    /\ LET m1 == IF ml.sortKey = key
                 THEN [ml EXCEPT !.sortOrder = IF @ = "asc" THEN "desc" ELSE "asc"]
                 ELSE [ml EXCEPT !.sortKey = key]
       IN  /\ ml' = MLReloadEffect(m1)
           /\ loads' = loads (+) SetToBag({MLRequest(m1, 1)})
    /\ User("handleSort", 0)
    /\ UNCHANGED <<view, fv, rp, ar, puts>>

MLhandleSort(key) ==
    /\ view = "ML"
    /\ InFlight + 1 <= MaxInFlight
    /\ LET m1 == IF ml.sortKey = key
                 THEN [ml EXCEPT !.sortOrder = IF @ = "asc" THEN "desc" ELSE "asc"]
                 ELSE [ml EXCEPT !.sortKey = key, !.sortOrder = "asc"]
       IN  /\ ml' = MLReloadEffect(m1)
           /\ loads' = loads (+) SetToBag({MLRequest(m1, 1)})
    /\ User("handleSort", 0)
    /\ UNCHANGED <<view, fv, rp, ar, puts>>

MLhandlePageChange(targetPage) ==
    /\ view = "ML"
    /\ IF targetPage >= 1 /\ targetPage <= ml.pages /\ targetPage # ml.page
       THEN /\ InFlight + 1 <= MaxInFlight
            /\ ml' = MLStartLoad(ml)
            /\ loads' = loads (+) SetToBag({MLRequest(ml, targetPage)})
       ELSE UNCHANGED <<ml, loads>>
    /\ User("handlePageChange", targetPage)
    /\ UNCHANGED <<view, fv, rp, ar, puts>>

\* the page-size <select> fires onChange with an option other than the current one:
\* setPageSize; setPage(1); loadTracks(1) from the render that handled the event,
\* then the reload effect of the next render, whose pageSize is the new one
MLhandlePageSizeChange(newPageSize) ==
    /\ view = "ML"
    /\ newPageSize # ml.pageSize
    /\ InFlight + 2 <= MaxInFlight
    /\ LET m1 == MLStartLoad([ml EXCEPT !.pageSize = newPageSize, !.page = 1])
       IN  /\ ml' = MLReloadEffect(m1)
           /\ loads' = loads (+) SetToBag({MLRequest(ml, 1)}) (+) SetToBag({MLRequest(m1, 1)})
    /\ User("handlePageSizeChange", newPageSize)
    /\ UNCHANGED <<view, fv, rp, ar, puts>>

\* the parent passes a new searchKeyword or filter value: the reload effect runs
MLSearchOrFilterChange ==
    /\ view = "ML"
    /\ InFlight + 1 <= MaxInFlight
    /\ ml' = MLReloadEffect(ml)
    /\ loads' = loads (+) SetToBag({MLRequest(ml, 1)})
    /\ User("searchOrFilter", 0)
    /\ UNCHANGED <<view, fv, rp, ar, puts>>

\* the retry button shown with the error: loadTracks(1)
MLRetry ==
    /\ view = "ML"
    /\ ml.error # ""
    /\ InFlight + 1 <= MaxInFlight
    /\ ml' = MLStartLoad(ml)
    /\ loads' = loads (+) SetToBag({MLRequest(ml, 1)})
    /\ User("retry", 0)
    /\ UNCHANGED <<view, fv, rp, ar, puts>>

\* handleFavorite that flips the local flag before the PUT is answered
MLhandleFavoriteOptimistic(i) ==
    /\ view = "ML"
    /\ i \in 1..Len(ml.tracks)
    /\ PutsInFlight + 1 <= MaxPuts
    /\ puts' = puts (+) SetToBag({[id |-> ml.tracks[i].id, favorite |-> ~ml.tracks[i].favorite,
                                   total |-> 0, pageSize |-> 0]})
    /\ ml' = [ml EXCEPT !.tracks[i].favorite = ~@]
    /\ User("handleFavorite", ml.tracks[i].id)
    /\ UNCHANGED <<view, fv, rp, ar, loads>>

\* handleFavorite up to the await: the PUT carries !track.favorite
MLhandleFavorite(i) ==
    /\ view = "ML"
    /\ i \in 1..Len(ml.tracks)
    /\ PutsInFlight + 1 <= MaxPuts
    /\ puts' = puts (+) SetToBag({[id |-> ml.tracks[i].id, favorite |-> ~ml.tracks[i].favorite,
                                   total |-> 0, pageSize |-> 0]})
    /\ User("handleFavorite", ml.tracks[i].id)
    /\ UNCHANGED <<view, ml, fv, rp, ar, loads>>

\* handleFavorite after the await, response.ok
MLFavoriteOk(p) ==
    /\ view = "ML"
    /\ BagIn(p, puts)
    /\ puts' = puts (-) SetToBag({p})
    /\ ml' = [ml EXCEPT !.tracks = [i \in 1..Len(@) |->
                  IF @[i].id = p.id THEN [@[i] EXCEPT !.favorite = ~@] ELSE @[i]]]
    /\ Did("favoriteOk", p.id)
    /\ UNCHANGED <<view, fv, rp, ar, loads>>

\* handleFavorite after the await, response not ok or fetch rejected
MLFavoriteFails(p) ==
    /\ view = "ML"
    /\ BagIn(p, puts)
    /\ puts' = puts (-) SetToBag({p})
    /\ Did("favoriteFail", p.id)
    /\ UNCHANGED <<view, ml, fv, rp, ar, loads>>

\* ------------------------------------------------------------- Favorites
\* useUrlState defaults and the useState cells of FavoritesPage
FVInit ==
    [state |-> [page |-> 1, pageSize |-> 10, sortKey |-> "title", sortOrder |-> "asc",
                search |-> ""],
     favorites |-> << >>, loading |-> FALSE, error |-> "", total |-> 0, pages |-> 0]

\* the setters of useUrlState
setPage(st, newPage) == [st EXCEPT !.page = newPage]
setPageSize(st, newPageSize) == [st EXCEPT !.pageSize = newPageSize, !.page = 1]
setSort(st, key, order) == [st EXCEPT !.sortKey = key, !.sortOrder = order]
setSearch(st, value) == [st EXCEPT !.search = value]

\* the request loadFavorites builds from the state it closes over
FVRequest(st) == [targetPage |-> st.page, pageSize |-> st.pageSize]

\* the synchronous part of loadFavorites: setLoading(true); setError('')
FVStartLoad(f) == [f EXCEPT !.loading = TRUE, !.error = ""]

\* useEffect(() => loadFavorites(), [loadFavorites]) after the url state became st:
\* loadFavorites is a new function only if one of its dependencies changed
FVSetState(st) ==
    IF st # fv.state
    THEN /\ InFlight + 1 <= MaxInFlight
         /\ fv' = FVStartLoad([fv EXCEPT !.state = st])
         /\ loads' = loads (+) SetToBag({FVRequest(st)})
    ELSE UNCHANGED <<fv, loads>>

FVMount ==
    /\ view = "none"
    /\ view' = "FV"
    /\ fv' = FVStartLoad(fv)
    /\ loads' = loads (+) SetToBag({FVRequest(fv.state)})
    /\ Did("mount", 0)
    /\ UNCHANGED <<ml, rp, ar, puts>>

\* tracksData.map(...) of loadFavorites, on the fields the views act on
processedTracks(tracksData) ==
    [i \in 1..Len(tracksData) |-> [id |-> tracksData[i].id, favorite |-> tracksData[i].favorite]]

\* result.pagination || { total: tracksData.length }
paginationData(json) ==
    IF json.shape = "pagination" THEN [total |-> json.total] ELSE [total |-> Len(json.data)]

\* loadFavorites after the awaits, response.ok
FVLoadOk(r, json) ==
    /\ view = "FV"
    /\ BagIn(r, loads)
    /\ loads' = loads (-) SetToBag({r})
    /\ fv' = [fv EXCEPT !.favorites = processedTracks(json.data),
                        !.total = paginationData(json).total,
                        !.pages = Ceil(paginationData(json).total, r.pageSize),
                        !.loading = FALSE]
    /\ Did("loadOk", r.targetPage)
    /\ UNCHANGED <<view, ml, rp, ar, puts>>

\* loadFavorites after the awaits, response not ok: setError(result.message || ...)
FVLoadUnsuccessful(r, message) ==
    /\ view = "FV"
    /\ BagIn(r, loads)
    /\ loads' = loads (-) SetToBag({r})
    /\ fv' = [fv EXCEPT !.error = OrStr(message, LoadFailed), !.loading = FALSE]
    /\ Did("loadFail", r.targetPage)
    /\ UNCHANGED <<view, ml, rp, ar, puts>>

\* loadFavorites when fetch or response.json() rejects
FVLoadThrows(r) ==
    /\ view = "FV"
    /\ BagIn(r, loads)
    /\ loads' = loads (-) SetToBag({r})
    /\ fv' = [fv EXCEPT !.error = NetworkError, !.loading = FALSE]
    /\ Did("loadFail", r.targetPage)
    /\ UNCHANGED <<view, ml, rp, ar, puts>>

FVhandlePageChange(newPage) ==
    /\ view = "FV"
    /\ FVSetState(setPage(fv.state, newPage))
    /\ User("handlePageChange", newPage)
    /\ UNCHANGED <<view, ml, rp, ar, puts>>

FVhandlePageSizeChange(newPageSize) ==
    /\ view = "FV"
    /\ FVSetState(setPageSize(fv.state, newPageSize))
    /\ User("handlePageSizeChange", newPageSize)
    /\ UNCHANGED <<view, ml, rp, ar, puts>>

FVhandleSort(key) ==
    /\ view = "FV"
    /\ FVSetState(IF fv.state.sortKey = key
                  THEN setSort(fv.state, key, IF fv.state.sortOrder = "asc" THEN "desc" ELSE "asc")
                  ELSE setSort(fv.state, key, "asc"))
    /\ User("handleSort", 0)
    /\ UNCHANGED <<view, ml, rp, ar, puts>>

\* handleSearchChange, and handleClearSearch with value ''
FVhandleSearchChange(value) ==
    /\ view = "FV"
    /\ value # fv.state.search
    /\ FVSetState(setSearch(fv.state, value))
    /\ User("searchOrFilter", 0)
    /\ UNCHANGED <<view, ml, rp, ar, puts>>

\* handleFavorite up to the await: the handler closes over total and state.pageSize
FVhandleFavorite(i) ==
    /\ view = "FV"
    /\ i \in 1..Len(fv.favorites)
    /\ PutsInFlight + 1 <= MaxPuts
    /\ puts' = puts (+) SetToBag({[id |-> fv.favorites[i].id,
                                   favorite |-> ~fv.favorites[i].favorite,
                                   total |-> fv.total, pageSize |-> fv.state.pageSize]})
    /\ User("handleFavorite", fv.favorites[i].id)
    /\ UNCHANGED <<view, ml, fv, rp, ar, loads>>

\* handleFavorite after the await, response.ok
FVFavoriteOk(p) ==
    /\ view = "FV"
    /\ BagIn(p, puts)
    /\ puts' = puts (-) SetToBag({p})
    /\ fv' = [fv EXCEPT !.favorites = SelectSeq(@, LAMBDA t : t.id # p.id),
                        !.total = @ - 1,
                        !.pages = Ceil(p.total - 1, p.pageSize)]
    /\ Did("favoriteOk", p.id)
    /\ UNCHANGED <<view, ml, rp, ar, loads>>

\* handleFavorite after the await, response not ok or fetch rejected
FVFavoriteFails(p) ==
    /\ view = "FV"
    /\ BagIn(p, puts)
    /\ puts' = puts (-) SetToBag({p})
    /\ Did("favoriteFail", p.id)
    /\ UNCHANGED <<view, ml, fv, rp, ar, loads>>

\* -------------------------------------------------------- RecentlyPlayed
RPInit ==
    [recentTracks |-> << >>, loading |-> FALSE, hasMore |-> TRUE, page |-> 1, total |-> 0,
     search |-> ""]

\* the request loadRecentTracks(targetPage) sends from a render whose search
\* text is search; pageSize is the constant 10
RPRequest(search, targetPage) == [targetPage |-> targetPage, pageSize |-> 10, search |-> search]

\* mount: both effects run, each calling loadRecentTracks(1)
RPMount ==
    /\ view = "none"
    /\ view' = "RP"
    /\ rp' = [rp EXCEPT !.loading = TRUE]
    /\ loads' = loads (+) SetToBag({RPRequest(rp.search, 1)}) (+) SetToBag({RPRequest(rp.search, 1)})
    /\ Did("mount", 0)
    /\ UNCHANGED <<ml, fv, ar, puts>>

\* handleSearchChange, then the [search] effect: loadRecentTracks(1)
RPhandleSearchChange(value) ==
    /\ view = "RP"
    /\ value # rp.search
    /\ InFlight + 1 <= MaxInFlight
    /\ rp' = [rp EXCEPT !.search = value, !.page = 1, !.recentTracks = << >>,
                        !.hasMore = TRUE, !.loading = TRUE]
    /\ loads' = loads (+) SetToBag({RPRequest(value, 1)})
    /\ User("searchOrFilter", 0)
    /\ UNCHANGED <<view, ml, fv, ar, puts>>

\* pagination.page < pagination.pages with pagination = result.pagination || {}
HasMore(json) == json.shape = "pagination" /\ json.page < json.pages

\* pagination.total || 0 with pagination = result.pagination || {}
PaginationTotal(json) == IF json.shape = "pagination" THEN OrNum(json.total, 0) ELSE 0

\* loadRecentTracks after the awaits, result.success truthy
RPLoadOk(r, json) ==
    /\ view = "RP"
    /\ BagIn(r, loads)
    /\ loads' = loads (-) SetToBag({r})
    /\ rp' = [rp EXCEPT !.recentTracks = IF r.targetPage = 1 THEN json.data ELSE @ \o json.data,
                        !.total = PaginationTotal(json),
                        !.hasMore = HasMore(json),
                        !.page = r.targetPage,
                        !.loading = FALSE]
    /\ Did("loadOk", r.targetPage)
    /\ UNCHANGED <<view, ml, fv, ar, puts>>

\* loadRecentTracks when result.success is falsy or fetch rejects: only the finally runs
RPLoadFails(r) ==
    /\ view = "RP"
    /\ BagIn(r, loads)
    /\ loads' = loads (-) SetToBag({r})
    /\ rp' = [rp EXCEPT !.loading = FALSE]
    /\ Did("loadFail", r.targetPage)
    /\ UNCHANGED <<view, ml, fv, ar, puts>>

\* ---------------------------------------------------------------- Artists
ARInit ==
    [artists |-> << >>, loading |-> FALSE, hasMore |-> TRUE, page |-> 1, total |-> 0,
     search |-> ""]

\* the request loadArtists(targetPage) sends; pageSize is the constant 10
ARRequest(targetPage) == [targetPage |-> targetPage, pageSize |-> 10]

ARMount ==
    /\ view = "none"
    /\ view' = "AR"
    /\ ar' = [ar EXCEPT !.loading = TRUE]
    /\ loads' = loads (+) SetToBag({ARRequest(1)})
    /\ Did("mount", 0)
    /\ UNCHANGED <<ml, fv, rp, puts>>

\* the search input: onChange={(e) => setSearch(e.target.value)}
ARSearchChange(value) ==
    /\ view = "AR"
    /\ value # ar.search
    /\ ar' = [ar EXCEPT !.search = value]
    /\ User("searchOrFilter", 0)
    /\ UNCHANGED <<view, ml, fv, rp, loads, puts>>

\* loadNext, called by InfiniteScroll
ARloadNext ==
    /\ view = "AR"
    /\ IF ~ar.loading /\ ar.hasMore
       THEN /\ InFlight + 1 <= MaxInFlight
            /\ ar' = [ar EXCEPT !.loading = TRUE]
            /\ loads' = loads (+) SetToBag({ARRequest(ar.page + 1)})
       ELSE UNCHANGED <<ar, loads>>
    /\ User("loadNext", 0)
    /\ UNCHANGED <<view, ml, fv, rp, puts>>

\* loadArtists after the awaits, result.success truthy
ARLoadOk(r, json) ==
    /\ view = "AR"
    /\ BagIn(r, loads)
    /\ loads' = loads (-) SetToBag({r})
    /\ ar' = [ar EXCEPT !.artists = IF r.targetPage = 1 THEN json.data ELSE @ \o json.data,
                        !.total = PaginationTotal(json),
                        !.hasMore = HasMore(json),
                        !.page = r.targetPage,
                        !.loading = FALSE]
    /\ Did("loadOk", r.targetPage)
    /\ UNCHANGED <<view, ml, fv, rp, puts>>

\* loadArtists when result.success is falsy or fetch rejects: only the finally runs
ARLoadFails(r) ==
    /\ view = "AR"
    /\ BagIn(r, loads)
    /\ loads' = loads (-) SetToBag({r})
    /\ ar' = [ar EXCEPT !.loading = FALSE]
    /\ Did("loadFail", r.targetPage)
    /\ UNCHANGED <<view, ml, fv, rp, puts>>

\* ------------------------------------------------------ record mappings
\* JavaScript values of a record field: undefined (the field is absent),
\* null, the empty string, or a non-empty string
Undefined == "undefined"
Null == "null"
Falsy == {Undefined, Null, ""}

\* a || b
Or(a, b) == IF a \in Falsy THEN b ELSE a

\* the fields the two mappings read or write; title stands for the fields
\* both mappings copy (title, artist, album, duration, year, bitrate, ...)
RawTracks ==
    [id : {Undefined, "", "a"}, _id : {Undefined, "", "b"},
     title : {Undefined, "t"}, genre : {Undefined, "g"},
     size : {Undefined, "5"}, fileSize : {Undefined, "7"},
     coverImage : {Undefined, Null, "", "c.jpg"}]

\* the object literal of docs.map(...) in loadTracks
MLMapTrack(t) ==
    [id |-> t.id, _id |-> t.id, title |-> t.title, genre |-> t.genre,
     size |-> Undefined, fileSize |-> Undefined,
     coverImage |-> Or(t.coverImage, Null)]

\* the object literal of tracksData.map(...) in loadFavorites
FVMapTrack(t) ==
    [id |-> Or(t.id, t._id), _id |-> Undefined, title |-> t.title, genre |-> Undefined,
     size |-> Undefined, fileSize |-> t.size,
     coverImage |-> t.coverImage]

NormIdle == [view |-> "none", applied |-> 0, raw |-> << >>, first |-> << >>, record |-> << >>]

\* a raw record handed to the mapping of one view
NormInputs ==
    {[view |-> v, applied |-> 0, raw |-> t, first |-> t, record |-> t] :
        v \in {"ML", "FV"}, t \in RawTracks}

\* norm after one more application of a mapping that gave out
Applied(out) ==
    [norm EXCEPT !.applied = @ + 1,
                 !.record = out,
                 !.first = IF norm.applied = 0 THEN out ELSE @]

\* the mapping of loadTracks is applied to the record, at most twice
MLNormalize ==
    /\ norm.view = "ML"
    /\ norm.applied < 2
    /\ norm' = Applied(MLMapTrack(norm.record))
    /\ UNCHANGED <<view, ml, fv, rp, ar, loads, puts, events, resized, op, sent>>

\* the mapping of loadFavorites is applied to the record, at most twice
FVNormalize ==
    /\ norm.view = "FV"
    /\ norm.applied < 2
    /\ norm' = Applied(FVMapTrack(norm.record))
    /\ UNCHANGED <<view, ml, fv, rp, ar, loads, puts, events, resized, op, sent>>

ViewsInit ==
    /\ view = "none"
    /\ ml = MLInit
    /\ fv = FVInit
    /\ rp = RPInit
    /\ ar = ARInit
    /\ loads = EmptyBag
    /\ puts = EmptyBag
    /\ events = 0
    /\ resized = FALSE
    /\ op = [name |-> "init", arg |-> 0]
    /\ sent = [id \in 1..MaxTrackId |-> "none"]

Init == ViewsInit /\ norm = NormIdle

NormInit == ViewsInit /\ norm \in NormInputs

\* the server answers a MusicList load
MLResponse ==
    \/ \E r \in BagToSet(loads), data \in DataLists :
           \E json \in Responses(r, data) : MLLoadOk(r, json)
    \/ \E r \in BagToSet(loads), e \in ServerMessages : MLLoadUnsuccessful(r, e)
    \/ \E r \in BagToSet(loads), msg \in ThrownMessages : MLLoadThrows(r, msg)

\* the favorite button of MusicList and the answers to its PUT
MLToggle ==
    \/ \E i \in 1..MaxTrackId : MLhandleFavorite(i)
    \/ \E p \in BagToSet(puts) : MLFavoriteOk(p)
    \/ \E p \in BagToSet(puts) : MLFavoriteFails(p)

MLNext ==
    \/ \E mode \in {"tracks", "recent"} : MLMount(mode)
    \/ MLResponse
    \/ \E key \in SortKeys : MLhandleSort(key)
    \/ \E t \in PageTargets : MLhandlePageChange(t)
    \/ \E n \in PickedSizes : MLhandlePageSizeChange(n)
    \/ MLSearchOrFilterChange
    \/ MLRetry
    \/ MLToggle

\* the server answers a Favorites load
FVResponse ==
    \/ \E r \in BagToSet(loads), data \in DataLists :
           \E json \in Responses(r, data) : FVLoadOk(r, json)
    \/ \E r \in BagToSet(loads), message \in ServerMessages : FVLoadUnsuccessful(r, message)
    \/ \E r \in BagToSet(loads) : FVLoadThrows(r)

\* the favorite button of the Favorites view and the answers to its PUT
FVToggle ==
    \/ \E i \in 1..MaxTrackId : FVhandleFavorite(i)
    \/ \E p \in BagToSet(puts) : FVFavoriteOk(p)
    \/ \E p \in BagToSet(puts) : FVFavoriteFails(p)

FVNext ==
    \/ FVMount
    \/ FVResponse
    \/ \E key \in SortKeys : FVhandleSort(key)
    \/ \E t \in PageTargets : FVhandlePageChange(t)
    \/ \E n \in PickedSizes : FVhandlePageSizeChange(n)
    \/ \E value \in Keywords : FVhandleSearchChange(value)
    \/ FVToggle

RPNext ==
    \/ RPMount
    \/ \E value \in Keywords : RPhandleSearchChange(value)
    \/ \E r \in BagToSet(loads), data \in DataLists :
           \E json \in Responses(r, data) : RPLoadOk(r, json)
    \/ \E r \in BagToSet(loads) : RPLoadFails(r)

ARNext ==
    \/ ARMount
    \/ \E value \in Keywords : ARSearchChange(value)
    \/ ARloadNext
    \/ \E r \in BagToSet(loads), data \in DataLists :
           \E json \in Responses(r, data) : ARLoadOk(r, json)
    \/ \E r \in BagToSet(loads) : ARLoadFails(r)

Next == MLNext \/ FVNext \/ RPNext \/ ARNext

Spec == Init /\ [][Next]_vars

\* MusicList and Favorites mounted and answered by the server
ListsLoad ==
    \/ \E mode \in {"tracks", "recent"} : MLMount(mode)
    \/ FVMount
    \/ MLResponse
    \/ FVResponse

\* the two list views when the only user events are sorts
SortNext ==
    \/ ListsLoad
    \/ \E key \in SortKeys : MLhandleSort(key)
    \/ \E key \in SortKeys : FVhandleSort(key)

\* the two list views when the only user events are favorite toggles
ToggleNext == ListsLoad \/ MLToggle \/ FVToggle

\* the Favorites view when the only user events are favorite toggles
FVToggleNext == FVMount \/ FVResponse \/ FVToggle

\* MusicList in its default mode when the only user events are page-size changes
ResizeNext ==
    \/ MLMount(MLInit.mode)
    \/ MLResponse
    \/ \E n \in PickedSizes : MLhandlePageSizeChange(n)

\* each view alone, and the list views under one kind of user event
SpecML == Init /\ [][MLNext]_vars
SpecFV == Init /\ [][FVNext]_vars
SpecFVToggle == Init /\ [][FVToggleNext]_vars
SpecSort == Init /\ [][SortNext]_vars
SpecToggle == Init /\ [][ToggleNext]_vars
SpecResize == Init /\ [][ResizeNext]_vars

\* the record mappings applied to raw records
NormNext == MLNormalize \/ FVNormalize
SpecNorm == NormInit /\ [][NormNext]_vars

Max(a, b) == IF a >= b THEN a ELSE b

\* C1: in MusicList and in the Favorites view, every reachable state has
\* 1 <= page <= max(pages, 1)
PageWithinPages ==
    /\ view = "ML" => ml.page >= 1 /\ ml.page <= Max(ml.pages, 1)
    /\ view = "FV" => fv.state.page >= 1 /\ fv.state.page <= Max(fv.pages, 1)

\* C2: whenever no request is in flight, the stored pages equals
\* ceil(stored total / current pageSize), in MusicList and in the Favorites view
\* (total and pages start at 0 and only a successful load or an acknowledged
\* toggle changes them, so a state that violates this has seen a successful load)
PagesIsCeilOfTotal ==
    /\ view = "ML" /\ InFlight = 0 => ml.pages = Ceil(ml.total, ml.pageSize)
    /\ view = "FV" /\ InFlight = 0 /\ PutsInFlight = 0 =>
           fv.pages = Ceil(fv.total, fv.state.pageSize)

\* C3: a page-change request for a target outside [1, pages] issues no request
\* and leaves the view's state unchanged, in MusicList and in the Favorites view
PageChangeOutOfRangeIgnored ==
    [][\A t \in PageTargets :
          /\ MLhandlePageChange(t) /\ (t < 1 \/ t > ml.pages) => UNCHANGED <<ml, loads>>
          /\ FVhandlePageChange(t) /\ (t < 1 \/ t > fv.pages) => UNCHANGED <<fv, loads>>]_vars

\* C4: handleSort on the current key keeps the key and flips the order; on
\* another key it selects that key with order 'asc'; the order is always
\* 'asc' or 'desc'
SortTogglesOrResets ==
    [][\A key \in SortKeys :
          /\ MLhandleSort(key) =>
                 /\ ml'.sortOrder \in {"asc", "desc"}
                 /\ IF ml.sortKey = key
                    THEN ml'.sortKey = ml.sortKey /\ ml'.sortOrder # ml.sortOrder
                    ELSE ml'.sortKey = key /\ ml'.sortOrder = "asc"
          /\ FVhandleSort(key) =>
                 /\ fv'.state.sortOrder \in {"asc", "desc"}
                 /\ IF fv.state.sortKey = key
                    THEN fv'.state.sortKey = fv.state.sortKey
                         /\ fv'.state.sortOrder # fv.state.sortOrder
                    ELSE fv'.state.sortKey = key /\ fv'.state.sortOrder = "asc"]_vars

\* a sort on the active key has flipped the order to 'desc'
SortFlipped ==
    /\ view = "ML"
    /\ op.name = "handleSort"
    /\ ml.sortKey = "title"
    /\ ml.sortOrder = "desc"

\* C5: in MusicList, after a page-size change (and no later request for another
\* page), once every request has been answered page equals 1
PageOneAfterResize == view = "ML" /\ resized /\ InFlight = 0 => ml.page = 1

\* C6: a failed load leaves the items, total and pages unchanged, clears the
\* loading flag and stores a non-empty error, in MusicList and in Favorites
FailedLoadKeepsData ==
    [][op'.name = "loadFail" =>
          /\ view = "ML" =>
                 /\ ml'.tracks = ml.tracks /\ ml'.total = ml.total /\ ml'.pages = ml.pages
                 /\ ~ml'.isLoading
                 /\ ml'.error # ""
          /\ view = "FV" =>
                 /\ fv'.favorites = fv.favorites /\ fv'.total = fv.total
                 /\ fv'.pages = fv.pages
                 /\ ~fv'.loading
                 /\ fv'.error # ""]_vars

\* a load has failed while a loaded list is on display
FailedWithData ==
    /\ view = "ML"
    /\ op.name = "loadFail"
    /\ Len(ml.tracks) > 0
    /\ ml.total > 0
    /\ ml.error # ""

\* the error message a view renders (MusicList renders it with its retry button;
\* RecentlyPlayed and Artists keep no error state)
DisplayedError ==
    CASE view = "ML" -> ml.error
      [] view = "FV" -> fv.error
      [] OTHER -> ""

\* C7: in every view, every failed request (a list load or a favorite toggle)
\* ends in a state that displays a non-empty error message with its retry action
EveryFailureDisplayed ==
    [][op'.name \in {"loadFail", "favoriteFail"} => DisplayedError' # ""]_vars

\* C8: on the Favorites view an acknowledged toggle decreases total by the
\* number of tracks it removes from the list, and a toggle of a listed track
\* removes exactly that track and decreases total by 1
FavoriteAckRemovesOne ==
    [][\A p \in BagToSet(puts) :
          FVFavoriteOk(p) =>
              /\ fv.total - fv'.total = Len(fv.favorites) - Len(fv'.favorites)
              /\ (\E i \in 1..Len(fv.favorites) : fv.favorites[i].id = p.id) =>
                     /\ fv'.total = fv.total - 1
                     /\ fv'.favorites = SelectSeq(fv.favorites, LAMBDA t : t.id # p.id)]_vars

\* C9: a favorite toggle leaves tracks, total and pages unchanged when the PUT is
\* sent and when it fails; the local change is made when the PUT is acknowledged
FavoriteChangesOnlyOnAck ==
    [][/\ op'.name \in {"handleFavorite", "favoriteFail"} =>
              /\ ml'.tracks = ml.tracks /\ ml'.total = ml.total /\ ml'.pages = ml.pages
              /\ fv'.favorites = fv.favorites /\ fv'.total = fv.total /\ fv'.pages = fv.pages
       /\ op'.name = "favoriteOk" /\ view = "ML" =>
              /\ Len(ml'.tracks) = Len(ml.tracks)
              /\ \A i \in 1..Len(ml.tracks) :
                     ml'.tracks[i].favorite =
                         IF ml.tracks[i].id = op'.arg THEN ~ml.tracks[i].favorite
                                                      ELSE ml.tracks[i].favorite]_vars

\* a PUT for a listed track is pending and the track's flag is still the one loaded
TogglePending ==
    /\ view = "ML"
    /\ op.name = "handleFavorite"
    /\ \E p \in BagToSet(puts), i \in 1..Len(ml.tracks) :
           ml.tracks[i].id = p.id /\ ml.tracks[i].favorite = ~p.favorite

\* C10: every loader stores the total of a response with a pagination object,
\* and for a response with only a flat total T stores total = T and (where the
\* view keeps pages) pages = ceil(T / pageSize)
BothShapesTolerated ==
    [][\A r \in BagToSet(loads), data \in DataLists :
          \A json \in Responses(r, data) :
              /\ MLLoadOk(r, json) =>
                     /\ json.shape = "pagination" => ml'.total = json.total
                     /\ json.shape = "flat" =>
                            ml'.total = json.total /\ ml'.pages = Ceil(json.total, r.pageSize)
              /\ FVLoadOk(r, json) =>
                     /\ json.shape = "pagination" => fv'.total = json.total
                     /\ json.shape = "flat" =>
                            fv'.total = json.total /\ fv'.pages = Ceil(json.total, r.pageSize)
              /\ RPLoadOk(r, json) =>
                     (json.shape \in {"pagination", "flat"} => rp'.total = json.total)]_vars
\* C11: mapping an already-mapped record gives the mapped record again,
\* field by field, for the mapping of loadTracks and for the mapping of
\* loadFavorites.
NormalizerIdempotent == norm.applied = 2 => norm.record = norm.first

\* the same for the mapping of loadTracks alone
MLNormalizerIdempotent == norm.view = "ML" /\ norm.applied = 2 => norm.record = norm.first

\* load request r is issued by the step
Issued(r) == CopiesIn(r, loads') > CopiesIn(r, loads)

\* the search text request r carries in its URL
SearchOf(r) == IF "search" \in DOMAIN r THEN r.search ELSE Undefined

\* the MusicList, Favorites and RecentlyPlayed part of C12
ListSetterTriggersReload ==
    /\ view = "ML" /\ events' # events /\ op'.name \in {"handleSort", "searchOrFilter"}
         => \E r \in BagToSet(loads') :
                Issued(r) /\ r.targetPage = 1 /\ r.pageSize = ml'.pageSize
    /\ view = "ML" /\ events' # events /\ op'.name = "handlePageSizeChange"
         => \E r \in BagToSet(loads') :
                Issued(r) /\ r.targetPage = 1 /\ r.pageSize = op'.arg
    /\ view = "ML" /\ events' # events /\ op'.name = "handlePageChange"
                   /\ op'.arg >= 1 /\ op'.arg <= ml.pages /\ op'.arg # ml.page
         => \E r \in BagToSet(loads') :
                Issued(r) /\ r.targetPage = op'.arg /\ r.pageSize = ml'.pageSize
    /\ view = "FV" /\ fv'.state # fv.state
         => \E r \in BagToSet(loads') : Issued(r) /\ r = FVRequest(fv'.state)
    /\ view = "RP" /\ rp'.search # rp.search
         => \E r \in BagToSet(loads') : Issued(r) /\ SearchOf(r) = rp'.search

ListSettersReload == [][ListSetterTriggersReload]_vars

\* C12: every step in which the user changes page, page size, sort key, sort
\* order, a filter value or the search text of a view issues a load request
\* that carries the new value (requests are told apart by their page and
\* page size, and by their search text where the view sends one); this
\* includes the search inputs of RecentlyPlayed and Artists.
SetterTriggersReload ==
    [][/\ ListSetterTriggersReload
       /\ view = "AR" /\ ar'.search # ar.search
            => \E r \in BagToSet(loads') : Issued(r) /\ SearchOf(r) = ar'.search]_vars

\* C13: total >= 0 in every reachable state of every view, whatever loads
\* and favorite toggles came before.
TotalNonNegative == ml.total >= 0 /\ fv.total >= 0 /\ rp.total >= 0 /\ ar.total >= 0

\* the same without the Favorites view
TotalNonNegativeElsewhere == ml.total >= 0 /\ rp.total >= 0 /\ ar.total >= 0

\* C14: a successful MusicList response is applied when it arrives, whatever
\* other loads are outstanding or were issued after its request: the page
\* becomes the page its request asked for and total and pages are those of
\* the response, pages being counted with the page size of its request.
LastResponseWins ==
    [][op'.name = "loadOk" /\ view = "ML"
         => \E r \in DOMAIN loads :
                /\ CopiesIn(r, loads') < CopiesIn(r, loads)
                /\ ml'.page = r.targetPage
                /\ ml'.total \in ServerTotals
                /\ Len(ml'.tracks) <= MaxTrackId
                /\ ml'.pages = IF ml.mode = "recent"
                               THEN Ceil(ml'.total, r.pageSize)
                               ELSE OrNum(Ceil(ml'.total, r.pageSize), 1)
                /\ ~ml'.isLoading]_vars

\* every load is answered and the pages shown were counted with the default
\* page size of an earlier request, although the page size is now another
StaleResponseShown ==
    /\ view = "ML" /\ InFlight = 0 /\ op.name = "loadOk"
    /\ ml.pageSize # DEFAULT_PAGE_SIZE
    /\ ml.total > 0
    /\ ml.pages = Ceil(ml.total, DEFAULT_PAGE_SIZE)
    /\ ml.pages # Ceil(ml.total, ml.pageSize)

\* C15: in MusicList, once every PUT sent for a track since the list was
\* loaded has been acknowledged, the favorite flag shown for the track is the
\* favorite value the last of these PUTs carried.
FavoriteMatchesLastPut ==
    view = "ML" /\ PutsInFlight = 0
        => \A i \in 1..Len(ml.tracks) :
               sent[ml.tracks[i].id] \in {"true", "false"}
                   => ml.tracks[i].favorite = (sent[ml.tracks[i].id] = "true")

\* the Artists part of C16
ARLoadingWhileOutstanding == view = "AR" => (ar.loading <=> InFlight > 0)

\* C16: in MusicList and in the Artists view the loading flag is true in
\* every state with a load request outstanding, and false again once every
\* outstanding request is answered.
LoadingWhileOutstanding ==
    /\ view = "ML" => (ml.isLoading <=> InFlight > 0)
    /\ ARLoadingWhileOutstanding

\* the second half of C16 alone: with no load outstanding the flag is false
LoadingClearedWhenAnswered ==
    /\ view = "ML" /\ InFlight = 0 => ~ml.isLoading
    /\ view = "AR" /\ InFlight = 0 => ~ar.loading

====
